---- MODULE Spec2Model ----
(***************************************************************************)
(* Model of src/load-testing/stress-test.py: AndroidWorldStressTester.    *)
(* One tester instance; the caller invokes run_threaded_stress_test or    *)
(* run_concurrent_requests, possibly several times in a row.  Worker      *)
(* threads / asyncio tasks are modelled step by step, one frame of local  *)
(* variables per trial.  Lists are objects on a heap so that a returned   *)
(* list that aliases self.results stays an alias.                         *)
(***************************************************************************)
EXTENDS Integers, Sequences, FiniteSets, TLC

\* ---------------------------------------------------------------- bounds
MaxTrials == 3
MaxConc == 2
MaxWork == 4
MaxClock == 30
TickStep == 15
MaxBase == 2
RepeatP95 == 10
RepeatP99 == 50

\* ------------------------------------------------------ program constants
Timeout == 30
NumScenarios == 5
StatusOK == 200
StatusNone == 0

None == -1
NoError == "None"
NoList == 0

SelfResults == 1

ThreadIds == 0 .. (MaxTrials - 1)
test_scenarios == 0 .. (NumScenarios - 1)
StatusCodes == {200, 500}
Responses == {[status_code |-> 200, body_len |-> 2], [status_code |-> 500, body_len |-> 0]}
TransportErrors == {"ConnectionError"}
PayloadErrors == {"ClientPayloadError"}
\* requests.exceptions.Timeout raised by requests.post(timeout=30)
ReadTimeout == "ReadTimeout"
\* asyncio.TimeoutError raised when ClientTimeout(total=30) expires
TimeoutError == "TimeoutError"
Exception == TransportErrors \cup PayloadErrors \cup {ReadTimeout, TimeoutError}

str_or_none(e) == IF e = TimeoutError THEN NoError ELSE e

\* str(e): the message of the exception, written here as the name of its class;
\* asyncio.TimeoutError is raised without arguments and its message is empty
str(e) == IF e = TimeoutError THEN "" ELSE e

\* how much later than the last reading of the clock a time.time() after a
\* blocking network exchange can read
Delays == {0, TickStep, Timeout}

\* self.max_workers is set by __init__ and never assigned again: the operators
\* that read it take it as a parameter, drawn from this set
MaxWorkers == 1 .. MaxConc

VARIABLES heap, returned, results_lock, clock,
          mode, num_requests, concurrency, i, threads, semaphore, wk

\* the summarizing half of main: the population and the duration handed to
\* generate_report, the tester's max_workers, the report, and the advisories
\* print_report / save_report obtain from _generate_recommendations
VARIABLES main_results, main_duration, max_workers, report, recommendations

\* the variables of a run
rvars == <<heap, returned, results_lock, clock,
           mode, num_requests, concurrency, i, threads, semaphore, wk>>

\* the variables of the summary
svars == <<main_results, main_duration, max_workers, report, recommendations>>

vars == <<heap, returned, results_lock, clock,
          mode, num_requests, concurrency, i, threads, semaphore, wk,
          main_results, main_duration, max_workers, report, recommendations>>

\* ------------------------------------------------------------ float
\* A Python float (IEEE 754 binary64) as sign * m * 2^e: s is 1 or -1, m a
\* natural number of at most mant_dig bits written as its digits to the base
\* LimbBase, lowest first, and odd; zero is m = <<>>, e = 0, s = 1.
\* Exponent range, infinities and NaN are left out: no duration comes near.
mant_dig == 53
LimbBits == 15
LimbBase == 2^LimbBits

Zero == [s |-> 1, m |-> <<>>, e |-> 0]

\* the digits of a without leading zeros
RECURSIVE BStrip(_)
BStrip(a) ==
    IF a = <<>> THEN <<>>
    ELSE IF a[Len(a)] = 0 THEN BStrip(SubSeq(a, 1, Len(a) - 1)) ELSE a

\* a * k + c, for 0 <= k, c < LimbBase
RECURSIVE BMulC(_, _, _)
BMulC(a, k, c) ==
    IF a = <<>> THEN (IF c = 0 THEN <<>> ELSE <<c>>)
    ELSE <<(a[1] * k + c) % LimbBase>> \o BMulC(Tail(a), k, (a[1] * k + c) \div LimbBase)

\* a + b + c
RECURSIVE BAddC(_, _, _)
BAddC(a, b, c) ==
    IF a = <<>> /\ b = <<>> THEN (IF c = 0 THEN <<>> ELSE <<c>>)
    ELSE IF a = <<>> THEN BAddC(<<0>>, b, c)
    ELSE IF b = <<>> THEN BAddC(a, <<0>>, c)
    ELSE <<(a[1] + b[1] + c) % LimbBase>>
             \o BAddC(Tail(a), Tail(b), (a[1] + b[1] + c) \div LimbBase)

\* a - b - c for a >= b + c, digits not stripped
RECURSIVE BSubC(_, _, _)
BSubC(a, b, c) ==
    IF a = <<>> THEN <<>>
    ELSE IF b = <<>> THEN BSubC(a, <<0>>, c)
    ELSE <<(a[1] - b[1] - c + LimbBase) % LimbBase>>
             \o BSubC(Tail(a), Tail(b), IF a[1] - b[1] - c < 0 THEN 1 ELSE 0)

\* digits k .. 1 of a divided by n, r carried in: <<remainder>> \o quotient
RECURSIVE BDivFrom(_, _, _, _)
BDivFrom(a, n, k, r) ==
    IF k = 0 THEN <<r>>
    ELSE Append(BDivFrom(a, n, k - 1, (r * LimbBase + a[k]) % n), (r * LimbBase + a[k]) \div n)

\* the number of bits of a digit x > 0, and of a > 0
Bits(x) == CHOOSE k \in 1 .. LimbBits : 2^(k - 1) <= x /\ x < 2^k
BBits(a) == (Len(a) - 1) * LimbBits + Bits(a[Len(a)])

\* a * 2^n
BShl(a, n) == [k \in 1 .. (n \div LimbBits) |-> 0] \o BMulC(a, 2^(n % LimbBits), 0)

\* a \div 2^n, and whether a bit was shifted out
BShr(a, n) ==
    LET w == n \div LimbBits
        d == BDivFrom(a, 2^(n % LimbBits), Len(a), 0)
    IN IF w >= Len(a)
         THEN [q |-> <<>>, sticky |-> a # <<>>]
         ELSE [q |-> BStrip(SubSeq(Tail(d), w + 1, Len(a))),
               sticky |-> d[1] # 0 \/ \E k \in 1 .. w : Tail(d)[k] # 0]

BOdd(a) == a # <<>> /\ a[1] % 2 = 1

\* a < b, for a and b without leading zeros
BLess(a, b) ==
    IF Len(a) # Len(b) THEN Len(a) < Len(b)
    ELSE \E k \in 1 .. Len(a) : a[k] < b[k] /\ \A j \in (k + 1) .. Len(a) : a[j] = b[j]

\* the number of zero bits at the low end of a > 0
LowZeros(a) ==
    LET w == CHOOSE k \in 1 .. Len(a) : a[k] # 0 /\ \A j \in 1 .. (k - 1) : a[j] = 0
        b == CHOOSE k \in 0 .. (LimbBits - 1) : a[w] % 2^(k + 1) # 0 /\ a[w] % 2^k = 0
    IN (w - 1) * LimbBits + b

\* sign * a * 2^e in the form of a float, a of at most mant_dig bits
Canon(sign, a, e) ==
    IF a = <<>> THEN Zero
    ELSE [s |-> sign, m |-> BShr(a, LowZeros(a)).q, e |-> e + LowZeros(a)]

\* the float nearest to sign * (a + f) * 2^e, 0 <= f < 1, f # 0 iff sticky
\* (ties to even); with sticky, a has more than mant_dig bits
Round(sign, a, e, sticky) ==
    IF a = <<>> THEN Zero
    ELSE IF BBits(a) <= mant_dig THEN Canon(sign, a, e)
    ELSE LET n == BBits(a) - mant_dig
             h == BShr(a, n - 1)
             q == BShr(h.q, 1).q
             up == BOdd(h.q) /\ (h.sticky \/ sticky \/ BOdd(q))
         IN Canon(sign, IF up THEN BAddC(q, <<>>, 1) ELSE q, e + n)

\* the digits of the natural number k
RECURSIVE Digits(_)
Digits(k) == IF k = 0 THEN <<>> ELSE <<k % LimbBase>> \o Digits(k \div LimbBase)

Abs(k) == IF k < 0 THEN 0 - k ELSE k
Sign(k) == IF k < 0 THEN -1 ELSE 1

\* float(k) of an int k
float(k) == Canon(Sign(k), Digits(Abs(k)), 0)

\* x * k for a float x and an int k
FMulInt(x, k) ==
    IF k = 0 THEN Zero ELSE Round(x.s * Sign(k), BStrip(BMulC(x.m, Abs(k), 0)), x.e, FALSE)

\* the exact sum x + y as sign, digits, exponent
SumExact(x, y) ==
    LET e0 == IF x.e < y.e THEN x.e ELSE y.e
        a == IF x.m = <<>> THEN <<>> ELSE BShl(x.m, x.e - e0)
        b == IF y.m = <<>> THEN <<>> ELSE BShl(y.m, y.e - e0)
    IN IF x.s = y.s THEN [s |-> x.s, m |-> BAddC(a, b, 0), e |-> e0]
       ELSE IF BLess(a, b) THEN [s |-> y.s, m |-> BStrip(BSubC(b, a, 0)), e |-> e0]
       ELSE [s |-> x.s, m |-> BStrip(BSubC(a, b, 0)), e |-> e0]

\* x + y for floats x and y
FAdd(x, y) == LET t == SumExact(x, y) IN Round(t.s, t.m, t.e, FALSE)

\* sign * a * 2^e / n rounded to a float, for an int n > 0
DivRound(sign, a, e, n) ==
    IF a = <<>> THEN Zero
    ELSE LET t == IF BBits(a) < mant_dig + LimbBits + 2 THEN mant_dig + LimbBits + 2 - BBits(a) ELSE 0
             d == BDivFrom(BShl(a, t), n, Len(BShl(a, t)), 0)
         IN Round(sign, BStrip(Tail(d)), e - t, d[1] # 0)

\* x / n for a float x and an int n > 0
FDivInt(x, n) == DivRound(x.s, x.m, x.e, n)

\* x < y, x <= y for floats
FLt(x, y) ==
    IF x = y THEN FALSE
    ELSE IF x.m = <<>> THEN y.s = 1
    ELSE IF y.m = <<>> THEN x.s = -1
    ELSE IF x.s # y.s THEN x.s = -1
    ELSE LET t == SumExact(y, [x EXCEPT !.s = 0 - x.s]) IN t.m # <<>> /\ t.s = 1
FLe(x, y) == x = y \/ FLt(x, y)

\* x - y for floats x and y
FSub(x, y) == FAdd(x, [y EXCEPT !.s = 0 - y.s])

\* no float (an attribute not assigned yet)
NoFloat == [s |-> 0, m |-> <<>>, e |-> 0]

\* ------------------------------------------------------------ TestResult
\* the readings of the clock
Times == 0 .. MaxClock

\* time.time(): the float read when the clock shows k
time[k \in Times] == float(k)

\* end_time - start_time of two readings of the clock
elapsed[et \in Times, st \in Times] == FSub(time[et], time[st])

TestResult(tid, st, et, sc, err, size) ==
    [thread_id |-> tid, start_time |-> time[st], end_time |-> time[et],
     duration |-> elapsed[et, st],
     status_code |-> sc, success |-> (sc = StatusOK), error |-> err, response_size |-> size]

\* result built on the success path of worker / single_request
ResponseResult(tid, st, et, resp) ==
    TestResult(tid, st, et, resp.status_code, NoError, resp.body_len)

ExceptionResult_end_only(tid, st, et, e) ==
    [thread_id |-> tid, start_time |-> time[st], end_time |-> time[et], duration |-> time[et],
     status_code |-> StatusNone, success |-> FALSE, error |-> str(e), response_size |-> 0]

\* result built by the except branch of worker / single_request
ExceptionResult(tid, st, et, e) ==
    [thread_id |-> tid, start_time |-> time[st], end_time |-> time[et],
     duration |-> elapsed[et, st],
     status_code |-> StatusNone, success |-> FALSE, error |-> str(e), response_size |-> 0]

\* no TestResult (a local not assigned yet)
NoResult ==
    [thread_id |-> None, start_time |-> NoFloat, end_time |-> NoFloat, duration |-> NoFloat,
     status_code |-> None, success |-> FALSE, error |-> NoError, response_size |-> None]

Caught_timeout_only(e) == e \in {ReadTimeout, TimeoutError}

\* except Exception as e
Caught(e) == e \in Exception

\* ------------------------------------------------------------ frames
NewFrame == [pc |-> "unborn", start_time |-> None,
             status_code |-> None, end_time |-> None, result |-> NoResult]

Trials == 0 .. (num_requests - 1)

append_overwrite(l, x) == IF l = <<>> THEN <<x>> ELSE [l EXCEPT ![Len(l)] = x]

\* self.results.append(result)
append(l, x) == Append(l, x)

\* timeout=30: the exchange begun at st has lasted the timeout at time now
TimedOut(st, now) == now >= st + Timeout

\* no StressTestReport (main has not called generate_report yet)
NoReport == [raised |-> "unset"]

\* no list of recommendations (neither print_report nor save_report has called
\* _generate_recommendations yet); a list that was returned may be empty
NoRecommendations == <<"unset">>

\* ------------------------------------------------------------ __init__
Init ==
    /\ heap = << <<>> >>
    /\ returned = <<>>
    /\ results_lock = None
    /\ clock = 0
    /\ mode = "idle"
    /\ num_requests = 0
    /\ concurrency = 1
    /\ i = 0
    /\ threads = <<>>
    /\ semaphore = 0
    /\ wk = [t \in ThreadIds |-> NewFrame]
    /\ main_results = <<>>
    /\ main_duration = 0
    /\ max_workers = 1
    /\ report = NoReport
    /\ recommendations = NoRecommendations

\* outcomes held by the tester and by the lists it has returned
RECURSIVE Held(_)
Held(k) == IF k = 0 THEN 0 ELSE Len(heap[k]) + Held(k - 1)

\* a call with n trials costs 1 + n; a tester serves calls up to a total of MaxWork
CanCall(n) == Len(returned) + Held(Len(heap)) + 1 + n <= MaxWork

\* the list a reference held by the caller points to
Deref(ref) == IF ref = NoList THEN <<>> ELSE heap[ref]

\* ------------------------------------------- run_threaded_stress_test
CallThreaded(n, c) ==
    /\ mode = "idle"
    /\ CanCall(n)
    /\ mode' = "threaded"
    /\ num_requests' = n
    /\ concurrency' = c
    /\ i' = 0
    /\ threads' = <<>>
    /\ wk' = [t \in ThreadIds |-> NewFrame]
    /\ UNCHANGED <<heap, returned, results_lock, clock, semaphore>>
    /\ UNCHANGED svars

BatchFull_gt(ths, c) == Len(ths) > c

\* if len(threads) >= concurrency
BatchFull(ths, c) == Len(ths) >= c

\* loop body: thread.start(), threads.append(thread)
StartThread ==
    /\ mode = "threaded"
    /\ i < num_requests
    /\ ~BatchFull(threads, concurrency)
    /\ wk' = [wk EXCEPT ![i].pc = "ready"]
    /\ threads' = Append(threads, i)
    /\ i' = i + 1
    /\ UNCHANGED <<heap, returned, results_lock, clock, mode,
                   num_requests, concurrency, semaphore>>
    /\ UNCHANGED svars

AllJoined_first == IF threads = <<>> THEN TRUE ELSE wk[threads[1]].pc = "done"

\* for t in threads: t.join()
AllJoined == \A k \in 1 .. Len(threads) : wk[threads[k]].pc = "done"

\* if len(threads) >= concurrency: for t in threads: t.join(); threads = []
JoinBatch ==
    /\ mode = "threaded"
    /\ BatchFull(threads, concurrency)
    /\ AllJoined
    /\ threads' = <<>>
    /\ UNCHANGED <<heap, returned, results_lock, clock, mode,
                   num_requests, concurrency, i, semaphore, wk>>
    /\ UNCHANGED svars

\* after the loop: join the remaining threads, return self.results
ReturnThreaded ==
    /\ mode = "threaded"
    /\ i = num_requests
    /\ ~BatchFull(threads, concurrency)
    /\ AllJoined
    /\ threads' = <<>>
    /\ returned' = Append(returned, SelfResults)
    /\ mode' = "idle"
    /\ UNCHANGED <<heap, results_lock, clock, num_requests,
                   concurrency, i, semaphore, wk>>
    /\ UNCHANGED svars

\* ------------------------------------------- run_concurrent_requests
CallConcurrent(n, c) ==
    /\ mode = "idle"
    /\ CanCall(n)
    /\ mode' = "async"
    /\ num_requests' = n
    /\ concurrency' = c
    /\ semaphore' = c
    /\ wk' = [t \in ThreadIds |-> IF t < n THEN [NewFrame EXCEPT !.pc = "pending"] ELSE NewFrame]
    /\ UNCHANGED <<heap, returned, results_lock, clock, i, threads>>
    /\ UNCHANGED svars

SemaphoreFree_always(s) == TRUE

SemaphoreFree_gt1(s) == s > 1

\* asyncio.Semaphore: acquire passes while the value is positive
SemaphoreFree(s) == s > 0

\* the tasks waiting for the semaphore are served first come, first served, and
\* gather starts them in the order of the list
NextPending(t) == wk[t].pc = "pending" /\ \A u \in 0 .. (t - 1) : wk[u].pc # "pending"

\* limited_request: async with semaphore (acquire), then single_request up to
\* its first await: start_time = time.time(), the scenario is chosen (it decides
\* nothing about an opaque endpoint and is not kept), the POST is sent.
\* Tasks of one event loop only interleave at an await.
Admit(t) ==
    /\ mode = "async"
    /\ NextPending(t)
    /\ SemaphoreFree(semaphore)
    /\ semaphore' = semaphore - 1
    /\ \E s \in test_scenarios :
          wk' = [wk EXCEPT ![t].pc = "posted", ![t].start_time = clock]
    /\ UNCHANGED <<heap, returned, results_lock, clock, mode,
                   num_requests, concurrency, i, threads>>
    /\ UNCHANGED svars

GatherResults == [k \in 1 .. num_requests |-> wk[k - 1].result]

\* results = await asyncio.gather(...); return results
\* gather re-raises the exception of a task as soon as that task has ended
\* with one, whatever the other tasks are doing: the call ends without a list
\* and the tasks still waiting are left behind; otherwise it waits for all
ReturnConcurrent ==
    /\ mode = "async"
    /\ IF \E t \in Trials : wk[t].pc = "done" /\ wk[t].result = NoResult
         THEN /\ returned' = Append(returned, NoList)
              /\ heap' = heap
         ELSE /\ \A t \in Trials : wk[t].pc = "done"
              /\ heap' = Append(heap, GatherResults)
              /\ returned' = Append(returned, Len(heap) + 1)
    /\ mode' = "idle"
    /\ UNCHANGED <<results_lock, clock, num_requests, concurrency,
                   i, threads, semaphore, wk>>
    /\ UNCHANGED svars

\* ------------------------------------------- worker
\* start_time = time.time()
TakeStart(t) ==
    /\ mode = "threaded"
    /\ wk[t].pc = "ready"
    /\ wk' = [wk EXCEPT ![t].pc = "timed", ![t].start_time = clock]
    /\ UNCHANGED <<heap, returned, results_lock, clock, mode,
                   num_requests, concurrency, i, threads, semaphore>>
    /\ UNCHANGED svars

\* scenario = random.choice(self.test_scenarios); the POST is sent.  The
\* endpoint is opaque: which scenario the request carries decides nothing, so
\* the frame does not keep it.
Post(t) ==
    /\ mode = "threaded"
    /\ wk[t].pc = "timed"
    /\ \E s \in test_scenarios : wk' = [wk EXCEPT ![t].pc = "posted"]
    /\ UNCHANGED <<heap, returned, results_lock, clock, mode,
                   num_requests, concurrency, i, threads, semaphore>>
    /\ UNCHANGED svars

\* the exceptions requests.post, begun at st, can raise at time now
Raisable(st, now) == TransportErrors \cup (IF TimedOut(st, now) THEN {ReadTimeout} ELSE {})

\* the exceptions session.post, begun at st, can raise at time now
RaisableHead(st, now) == TransportErrors \cup (IF TimedOut(st, now) THEN {TimeoutError} ELSE {})

\* the exceptions reading the body can raise at time now
RaisableBody(st, now) == PayloadErrors \cup (IF TimedOut(st, now) THEN {TimeoutError} ELSE {})

\* the clock readings possible after a blocking exchange
Later == {clock + d : d \in {e \in Delays : clock + e <= MaxClock}}

Finished(f, r) ==
    [f EXCEPT !.pc = "result", !.status_code = None, !.end_time = None, !.result = r]

\* an exception no except clause catches ends the thread
Killed(f) ==
    [f EXCEPT !.pc = "done", !.status_code = None, !.end_time = None, !.result = NoResult]

\* worker: try ... except Exception as e
WorkerExcept(f, t, now, e) ==
    IF Caught(e) THEN Finished(f, ExceptionResult(t, f.start_time, now, e)) ELSE Killed(f)

\* single_request returns r to limited_request, which returns it: the task is done
Returned(f, r) ==
    [f EXCEPT !.pc = "done", !.status_code = None, !.end_time = None, !.result = r]

\* single_request: try ... except Exception as e (an uncaught one ends the task)
RequestExcept(f, t, now, e) ==
    IF Caught(e) THEN Returned(f, ExceptionResult(t, f.start_time, now, e))
    ELSE Returned(f, NoResult)

\* worker: requests.post returns a response, or raises; end_time = time.time()
Complete(t) ==
    /\ mode = "threaded"
    /\ wk[t].pc = "posted"
    /\ \E now \in Later :
          /\ clock' = now
          /\ \/ \E resp \in Responses :
                  wk' = [wk EXCEPT ![t] = Finished(@, ResponseResult(t, wk[t].start_time, now, resp))]
             \/ \E e \in Raisable(wk[t].start_time, now) :
                  wk' = [wk EXCEPT ![t] = WorkerExcept(@, t, now, e)]
    /\ UNCHANGED <<heap, returned, results_lock, mode,
                   num_requests, concurrency, i, threads, semaphore>>
    /\ UNCHANGED svars

\* single_request: session.post yields the response head (end_time = time.time()),
\* or raises; with an exception the task returns its result and leaves
\* 'async with semaphore' (release)
RecvHead(t) ==
    /\ mode = "async"
    /\ wk[t].pc = "posted"
    /\ \E now \in Later :
          /\ clock' = now
          /\ \/ /\ ~TimedOut(wk[t].start_time, now)
                /\ \E sc \in StatusCodes :
                      wk' = [wk EXCEPT ![t].pc = "reading", ![t].status_code = sc, ![t].end_time = now]
                /\ semaphore' = semaphore
             \/ /\ \E e \in RaisableHead(wk[t].start_time, now) :
                      wk' = [wk EXCEPT ![t] = RequestExcept(@, t, now, e)]
                /\ semaphore' = semaphore + 1
    /\ UNCHANGED <<heap, returned, results_lock, mode,
                   num_requests, concurrency, i, threads>>
    /\ UNCHANGED svars

\* single_request: response_text = await response.text(), or it raises; the
\* task returns its result and leaves 'async with semaphore' (release)
ReadBody(t) ==
    /\ mode = "async"
    /\ wk[t].pc = "reading"
    /\ \E now \in Later :
          /\ clock' = now
          /\ \/ /\ ~TimedOut(wk[t].start_time, now)
                /\ \E resp \in {r \in Responses : r.status_code = wk[t].status_code} :
                      wk' = [wk EXCEPT ![t] = Returned(@, ResponseResult(t, wk[t].start_time, wk[t].end_time, resp))]
             \/ \E e \in RaisableBody(wk[t].start_time, now) :
                  wk' = [wk EXCEPT ![t] = RequestExcept(@, t, now, e)]
    /\ semaphore' = semaphore + 1
    /\ UNCHANGED <<heap, returned, results_lock, mode,
                   num_requests, concurrency, i, threads>>
    /\ UNCHANGED svars

\* worker: with self.results_lock (acquire)
AcquireLock(t) ==
    /\ mode = "threaded"
    /\ wk[t].pc = "result"
    /\ results_lock = None
    /\ results_lock' = t
    /\ wk' = [wk EXCEPT ![t].pc = "locked"]
    /\ UNCHANGED <<heap, returned, clock, mode, num_requests,
                   concurrency, i, threads, semaphore>>
    /\ UNCHANGED svars

\* worker: self.results.append(result), lock released, thread ends
AppendResult(t) ==
    /\ mode = "threaded"
    /\ wk[t].pc = "locked"
    /\ heap' = [heap EXCEPT ![SelfResults] = append(@, wk[t].result)]
    /\ results_lock' = None
    /\ wk' = [wk EXCEPT ![t].pc = "done"]
    /\ UNCHANGED <<returned, clock, mode, num_requests,
                   concurrency, i, threads, semaphore>>
    /\ UNCHANGED svars

\* ------------------------------------------------------ generate_report
\* a ratio of two ints as an exact fraction num / den, den > 0
Rat(n, d) == [num |-> n, den |-> d]
RatEq(a, b) == a.num * b.den = b.num * a.den
RatLt(a, b) == a.num * b.den < b.num * a.den
RatLe(a, b) == a.num * b.den <= b.num * a.den

\* the values of the list q
Values(q) == {q[j] : j \in DOMAIN q}

\* statistics._sum: the exact sum of the floats of q (sign, digits, exponent),
\* taken value by value, each as often as it occurs in q
RECURSIVE SumOf(_, _)
SumOf(vals, q) ==
    IF vals = {} THEN Zero
    ELSE LET v == CHOOSE x \in vals : TRUE
             c == Len(SelectSeq(q, LAMBDA x : x = v))
         IN SumExact([v EXCEPT !.m = BStrip(BMulC(v.m, c, 0))], SumOf(vals \ {v}, q))

\* statistics.mean(q) of a non-empty list of floats: the exact sum divided by
\* len(q), rounded once
mean(q) ==
    LET total == SumOf(Values(q), q) IN DivRound(total.s, total.m, total.e, Len(q))

\* max(q) of a non-empty list
SeqMax(q) == CHOOSE v \in Values(q) : \A w \in Values(q) : FLe(w, v)

\* min(q) of a non-empty list
SeqMin(q) == CHOOSE v \in Values(q) : \A w \in Values(q) : FLe(v, w)

\* the values of vals in ascending order, each as often as it occurs in q
RECURSIVE Runs(_, _)
Runs(vals, q) ==
    IF vals = {} THEN <<>>
    ELSE LET v == CHOOSE x \in vals : \A y \in vals : FLe(x, y)
         IN SelectSeq(q, LAMBDA x : x = v) \o Runs(vals \ {v}, q)

Sorted_as_recorded(q) == q

\* sorted(data)
Sorted(q) == Runs(Values(q), q)

\* statistics.quantiles(data, n=n)[idx], method 'exclusive'; cut point idx + 1:
\* (data[j - 1] * (n - delta) + data[j] * delta) / n, each operation rounded
quantiles(data, n, idx) ==
    LET d == Sorted(data)
        ld == Len(d)
        m == ld + 1
        k == idx + 1
        j0 == (k * m) \div n
        j == IF j0 < 1 THEN 1 ELSE IF j0 > ld - 1 THEN ld - 1 ELSE j0
        delta == k * m - j * n
    IN FDivInt(FAdd(FMulInt(d[j], n - delta), FMulInt(d[j + 1], delta)), n)

\* [r for r in results if r.success]
successful(results) == SelectSeq(results, LAMBDA r : r.success)

failed_with_error(results) == SelectSeq(results, LAMBDA r : r.error # NoError)

\* [r for r in results if not r.success]
failed(results) == SelectSeq(results, LAMBDA r : ~r.success)

durations_all(results) == [k \in 1 .. Len(results) |-> results[k].duration]

\* [r.duration for r in results if r.success]
durations(results) ==
    LET ok == successful(results) IN [k \in 1 .. Len(ok) |-> ok[k].duration]

percentile_from_20(ds, n, idx) ==
    IF Len(ds) >= 20 THEN quantiles(ds, n, idx)
    ELSE IF ds # <<>> THEN SeqMax(ds) ELSE Zero

\* p95 / p99: quantiles when there are at least n durations, else max, else 0
percentile(ds, n, idx) ==
    IF Len(ds) >= n THEN quantiles(ds, n, idx)
    ELSE IF ds # <<>> THEN SeqMax(ds) ELSE Zero

Min(a, b) == IF a < b THEN a ELSE b

\* avg_memory_per_request = 50  (estimated MB per request)
avg_memory_per_request == 50

\* len(results) * avg_cpu_per_request, avg_cpu_per_request = 0.15
cpu_usage_estimate(results) == Rat(Len(results) * 15, 100)

memory_usage_estimate_successful(results) == Len(successful(results)) * avg_memory_per_request

\* len(results) * avg_memory_per_request
memory_usage_estimate(results) == Len(results) * avg_memory_per_request

ValueError == [raised |-> "ValueError"]

\* generate_report(results, test_duration) of a tester with self.max_workers = mw
generate_report(results, test_duration, mw) ==
    IF results = <<>> THEN ValueError
    ELSE LET ds == durations(results) IN
      [raised |-> "None",
       total_requests |-> Len(results),
       successful_requests |-> Len(successful(results)),
       failed_requests |-> Len(failed(results)),
       success_rate |-> Rat(Len(successful(results)) * 100, Len(results)),
       avg_response_time |-> IF ds # <<>> THEN mean(ds) ELSE Zero,
       min_response_time |-> IF ds # <<>> THEN SeqMin(ds) ELSE Zero,
       max_response_time |-> IF ds # <<>> THEN SeqMax(ds) ELSE Zero,
       p95_response_time |-> percentile(ds, 20, 18),
       p99_response_time |-> percentile(ds, 100, 98),
       max_concurrency_reached |-> Min(Len(results), mw),
       total_duration |-> test_duration,
       requests_per_second |-> IF test_duration > 0 THEN Rat(Len(results), test_duration) ELSE Rat(0, 1),
       cpu_usage_estimate |-> cpu_usage_estimate(results),
       memory_usage_estimate |-> memory_usage_estimate(results)]

\* ------------------------------------------- _generate_recommendations
AdviceSuccessRate == "Success rate below 95% - investigate error handling and system stability"
AdviceLatency == "95th percentile response time > 5s - optimize performance or increase resources"
AdviceThroughput == "Throughput below 10 req/s - consider horizontal scaling or performance optimization"
AdviceCpu == "High CPU usage estimated - consider vertical scaling or code optimization"
AdviceMemory == "High memory usage estimated - investigate memory leaks or increase memory limits"
AdviceHealthy == "System performing well under stress - current configuration appears adequate"

\* if <rule>: recommendations.append(<advice>)
AppendIf(recs, rule, advice) == IF rule THEN Append(recs, advice) ELSE recs

_generate_recommendations_first(rp) ==
    IF RatLt(rp.success_rate, Rat(95, 1)) THEN <<AdviceSuccessRate>>
    ELSE IF FLt(float(5), rp.p95_response_time) THEN <<AdviceLatency>>
    ELSE IF RatLt(rp.requests_per_second, Rat(10, 1)) THEN <<AdviceThroughput>>
    ELSE IF RatLt(Rat(100, 1), rp.cpu_usage_estimate) THEN <<AdviceCpu>>
    ELSE IF rp.memory_usage_estimate > 1000 THEN <<AdviceMemory>>
    ELSE <<AdviceHealthy>>

\* _generate_recommendations(report)
_generate_recommendations(rp) ==
    LET r1 == AppendIf(<<>>, RatLt(rp.success_rate, Rat(95, 1)), AdviceSuccessRate)
        r2 == AppendIf(r1, FLt(float(5), rp.p95_response_time), AdviceLatency)
        r3 == AppendIf(r2, RatLt(rp.requests_per_second, Rat(10, 1)), AdviceThroughput)
        r4 == AppendIf(r3, RatLt(Rat(100, 1), rp.cpu_usage_estimate), AdviceCpu)
        r5 == AppendIf(r4, rp.memory_usage_estimate > 1000, AdviceMemory)
    IN IF r5 = <<>> THEN <<AdviceHealthy>> ELSE r5

\* ------------------------------------------- main: summarizing a population
\* the durations of the outcomes of the populations summarized
PopDelays == {0, TickStep}

\* outcomes a trial can end with (its thread_id is set by its place): a fast
\* and a slow success, a refusal by status code, a transport failure
Outcomes ==
    {ResponseResult(0, 0, d, resp) : d \in PopDelays, resp \in {x \in Responses : x.status_code = StatusOK}}
    \cup {ResponseResult(0, 0, 0, resp) : resp \in {x \in Responses : x.status_code # StatusOK}}
    \cup {ExceptionResult(0, 0, TickStep, e) : e \in TransportErrors}

\* a population: a block of at most MaxBase outcomes, recorded r times over
\* (with r such that 20 and 100 outcomes are reached), then at most one more
Blocks == UNION {[1 .. n -> Outcomes] : n \in 0 .. MaxBase}
Repeats == {1, RepeatP95, RepeatP99}
Tails == {<<>>} \cup {<<o>> : o \in Outcomes}
Population(b, r, tail) ==
    LET q == [j \in 1 .. (Len(b) * r) |-> b[((j - 1) % Len(b)) + 1]] \o tail
    IN [j \in 1 .. Len(q) |-> [q[j] EXCEPT !.thread_id = j - 1]]

\* the wall-clock durations of a run handed to generate_report
TestDurations == {0, 1}

\* a tester no run has used
IdleTester ==
    /\ heap = << <<>> >>
    /\ returned = <<>>
    /\ results_lock = None
    /\ clock = 0
    /\ mode = "idle"
    /\ num_requests = 0
    /\ concurrency = 1
    /\ i = 0
    /\ threads = <<>>
    /\ semaphore = 0
    /\ wk = [t \in ThreadIds |-> NewFrame]

\* the sizes of the large populations: either side of the size from which
\* len(results) * 0.15 exceeds 100
LargeTotals == {666, 667}

\* durations that use the whole precision of a float:
\* 0.0137249424464067 (0x1.c1bd297930b5cp-7) and
\* 0.45715874561290587 (0x1.d4216c15f3859p-2)
FineDurations ==
    {[s |-> 1, m |-> <<17111, 19401, 7122, 56>>, e |-> -57],
     [s |-> 1, m |-> <<14425, 702, 2139, 234>>, e |-> -54]}

\* a success that began at 0 and lasted f
FineOutcome(f) ==
    [ResponseResult(0, 0, 0, CHOOSE x \in Responses : x.status_code = StatusOK)
        EXCEPT !.end_time = f, !.duration = f]

\* the sizes of the populations of such successes: past the 20 and at the 100
\* from which quantiles are computed
FineTotals == {21, 100}

SummarizeInit ==
    /\ IdleTester
    /\ \/ \E b \in Blocks, r \in Repeats, tail \in Tails : main_results = Population(b, r, tail)
       \/ \E o \in Outcomes, n \in LargeTotals : main_results = Population(<<o>>, n, <<>>)
       \/ \E f \in FineDurations, n \in FineTotals, tail \in Tails :
             main_results = Population(<<FineOutcome(f)>>, n, tail)
    /\ main_duration \in TestDurations
    /\ max_workers \in MaxWorkers
    /\ report = NoReport
    /\ recommendations = NoRecommendations

\* main: report = tester.generate_report(results, test_duration)
GenerateReport ==
    /\ report' = generate_report(main_results, main_duration, max_workers)
    /\ UNCHANGED <<main_results, main_duration, max_workers, recommendations>>
    /\ UNCHANGED rvars

\* print_report / save_report: self._generate_recommendations(report)
PrintReport ==
    /\ report # NoReport
    /\ report # ValueError
    /\ recommendations' = _generate_recommendations(report)
    /\ UNCHANGED <<main_results, main_duration, max_workers, report>>
    /\ UNCHANGED rvars

Reversed(q) == [k \in 1 .. Len(q) |-> q[Len(q) + 1 - k]]

\* the caller holds the same outcomes recorded in the opposite order
Reverse ==
    /\ Len(main_results) >= 2
    /\ main_results' = Reversed(main_results)
    /\ UNCHANGED <<main_duration, max_workers, report, recommendations>>
    /\ UNCHANGED rvars

\* the k-th outcome, a failed one, lasted d instead
SetFailedDuration(k, d) ==
    /\ k \in DOMAIN main_results
    /\ ~main_results[k].success
    /\ main_results[k].duration # float(d)
    /\ main_results' = [main_results EXCEPT ![k].duration = float(d),
                                            ![k].end_time = FAdd(main_results[k].start_time, float(d))]
    /\ UNCHANGED <<main_duration, max_workers, report, recommendations>>
    /\ UNCHANGED rvars

SummarizeNext ==
    \/ GenerateReport
    \/ PrintReport
    \/ Reverse
    \/ \E d \in PopDelays : SetFailedDuration(1, d)

\* generate_report and _generate_recommendations applied to populations
SummarizeSpec == SummarizeInit /\ [][SummarizeNext]_vars

\* the reports handed to _generate_recommendations: every field a rule reads
\* on both sides of its threshold
Reports ==
    [raised : {"None"},
     total_requests : {1}, successful_requests : {1}, failed_requests : {0},
     success_rate : {Rat(0, 1), Rat(94, 1), Rat(95, 1), Rat(100, 1)},
     avg_response_time : {Zero}, min_response_time : {Zero},
     max_response_time : {Zero},
     p95_response_time : {float(5), float(6)},
     p99_response_time : {float(6)},
     max_concurrency_reached : {1}, total_duration : {1},
     requests_per_second : {Rat(9, 1), Rat(10, 1)},
     cpu_usage_estimate : {Rat(100, 1), Rat(101, 1)},
     memory_usage_estimate : {1000, 1050}]

RecommendInit ==
    /\ IdleTester
    /\ main_results = <<>>
    /\ main_duration = 0
    /\ max_workers = 1
    /\ report \in Reports
    /\ recommendations = NoRecommendations

RecommendNext == PrintReport

\* _generate_recommendations applied to reports
RecommendSpec == RecommendInit /\ [][RecommendNext]_vars

Next ==
    \/ \E n \in 0 .. MaxTrials, c \in 1 .. MaxConc : CallThreaded(n, c)
    \/ StartThread
    \/ JoinBatch
    \/ ReturnThreaded
    \/ \E n \in 0 .. MaxTrials, c \in 1 .. MaxConc : CallConcurrent(n, c)
    \/ \E t \in ThreadIds : Admit(t)
    \/ ReturnConcurrent
    \/ \E t \in ThreadIds : TakeStart(t)
    \/ \E t \in ThreadIds : Post(t)
    \/ \E t \in ThreadIds : Complete(t)
    \/ \E t \in ThreadIds : RecvHead(t)
    \/ \E t \in ThreadIds : ReadBody(t)
    \/ \E t \in ThreadIds : AcquireLock(t)
    \/ \E t \in ThreadIds : AppendResult(t)

Spec == Init /\ [][Next]_vars

\* the steps of a run in progress: worker threads, tasks and the caller's loop
RunStep ==
    \/ StartThread
    \/ JoinBatch
    \/ ReturnThreaded
    \/ ReturnConcurrent
    \/ \E t \in ThreadIds :
          \/ Admit(t) \/ TakeStart(t) \/ Post(t) \/ Complete(t)
          \/ RecvHead(t) \/ ReadBody(t) \/ AcquireLock(t) \/ AppendResult(t)

\* threads and tasks that can run are scheduled, and every exchange ends
LiveSpec == Init /\ [][Next]_vars /\ WF_vars(RunStep)

\* ================================================================ claims
\* a call of run has returned and no other is in progress
JustReturned == mode = "idle" /\ Len(returned) > 0

\* the population the last call returned, as the caller sees it now
LastReturned == Deref(returned[Len(returned)])

\* trials that have started and not yet handed over their outcome
InFlight == {t \in ThreadIds : wk[t].pc \in {"ready", "timed", "posted", "reading", "result", "locked"}}

Started == {t \in ThreadIds : wk[t].pc # "unborn"}

\* C1: every call of run returns a population of exactly N outcomes, also
\* when run is called again on the same tester.
C1_ReturnsExactlyN == JustReturned => Len(LastReturned) = num_requests

\* C2: the outcomes a run returns carry each of the numbers 0..N-1 exactly once.
C2_EachIndexOnce ==
    JustReturned =>
        /\ \A k \in Trials :
              Cardinality({j \in DOMAIN LastReturned : LastReturned[j].thread_id = k}) = 1
        /\ \A j \in DOMAIN LastReturned : LastReturned[j].thread_id \in Trials

\* C3: batched discipline: the trials started and not yet recorded never
\* number more than C.
C3_BatchedInFlightBound == mode = "threaded" => Cardinality(InFlight) <= concurrency

C3_Witness ==
    /\ mode = "threaded" /\ concurrency >= 2 /\ num_requests > concurrency
    /\ Cardinality(InFlight) = concurrency

\* C4: batched discipline: the threads of the current batch are consecutive
\* indices of one batch of size C, and whenever a trial of a later batch has
\* been started every trial of every earlier batch has recorded its outcome.
C4_BatchesInSequence ==
    mode = "threaded" =>
        /\ \A t \in Started, u \in Started :
              (t \div concurrency) < (u \div concurrency) => wk[t].pc = "done"
        /\ \A k \in 1 .. Len(threads) :
              /\ threads[k] \div concurrency = threads[1] \div concurrency
              /\ threads[k] = threads[1] + k - 1
        /\ Len(threads) <= concurrency
        /\ Started = 0 .. (i - 1)

C4_Witness ==
    /\ mode = "threaded" /\ concurrency = 2 /\ num_requests = 3
    /\ wk[2].pc = "posted" /\ wk[0].pc = "done" /\ wk[1].pc = "done"

\* C5: fan-out discipline: a trial has its start timestamp only while or after
\* holding a slot of the gate, the slots held are exactly the trials in flight
\* and never more than C, and a finished trial, failed or not, holds none.
C5_GateBound ==
    mode = "async" =>
        /\ semaphore >= 0
        /\ Cardinality(InFlight) = concurrency - semaphore
        /\ Cardinality(InFlight) <= concurrency
        /\ \A t \in ThreadIds : wk[t].pc = "pending" => wk[t].start_time = None

C5_Witness ==
    /\ mode = "async" /\ concurrency = 1 /\ semaphore = 0
    /\ \E t \in ThreadIds, u \in ThreadIds :
          /\ wk[t].pc = "done" /\ ~wk[t].result.success /\ wk[t].result.error # NoError
          /\ wk[u].pc = "posted" /\ wk[u].start_time # None
          /\ \E v \in ThreadIds : wk[v].pc = "pending"

\* every TestResult there is: in a list on the heap or in a frame
AllResults ==
    {heap[k][j] : <<k, j>> \in {x \in (DOMAIN heap) \X (1 .. MaxWork) : x[2] <= Len(heap[x[1]])}}
    \cup {wk[t].result : t \in {u \in ThreadIds : wk[u].result # NoResult}}

\* C6: a transport-level failure becomes a failed outcome (success false,
\* status 0, error set) and does not leave run as an exception: when run
\* returns, every trial of the run has its outcome in the returned list.
C6_FailureContained ==
    /\ \A r \in AllResults :
          /\ r.status_code = StatusNone <=> r.error # NoError
          /\ r.error # NoError => ~r.success /\ r.error \in {str(e) : e \in Exception}
    /\ \A t \in ThreadIds : wk[t].pc \in {"result", "locked", "done"} => wk[t].result # NoResult
    /\ JustReturned =>
          /\ returned[Len(returned)] # NoList
          /\ \A t \in Trials : \E j \in DOMAIN LastReturned : LastReturned[j] = wk[t].result

C6_Witness ==
    /\ JustReturned /\ num_requests >= 2
    /\ \E t \in Trials, u \in Trials :
          /\ wk[t].result.error \in {str(e) : e \in TransportErrors \cup PayloadErrors}
          /\ wk[u].result.success

\* C7: with C >= 1, a run in progress eventually returns, every one of its
\* trials having gone through to its end with an outcome.
C7_RunTerminates ==
    (mode # "idle") ~> (mode = "idle" /\ \A t \in Trials : wk[t].pc = "done" /\ wk[t].result # NoResult)

C7_Witness ==
    /\ JustReturned /\ num_requests > concurrency
    /\ \A t \in Trials : wk[t].pc = "done"

\* the error descriptions of the two timeouts
TimeoutMessages == {str(ReadTimeout), str(TimeoutError)}

\* C8: a trial that timed out is a failed outcome with the timeout error, and
\* when every trial of a run timed out all outcomes returned are failed and
\* the latency statistics of the report over them are all 0.
C8_AllTimedOut ==
    /\ \A r \in AllResults : r.error \in TimeoutMessages => ~r.success /\ r.status_code = StatusNone
    /\ (JustReturned /\ num_requests >= 1 /\ \A t \in Trials : wk[t].result.error \in TimeoutMessages) =>
          /\ Len(LastReturned) = num_requests
          /\ \A j \in DOMAIN LastReturned : ~LastReturned[j].success
          /\ \A mw \in MaxWorkers :
              LET rp == generate_report(LastReturned, clock, mw) IN
                /\ rp.raised = "None"
                /\ \A f \in {"avg_response_time", "min_response_time", "max_response_time",
                               "p95_response_time", "p99_response_time"} : rp[f] = Zero

\* C9: self.results changes only by a worker that holds results_lock appending
\* its own result at the end: one more entry per append, none lost, none twice.
C9_AppendsExact ==
    [][LET old == heap[SelfResults]
           new == heap'[SelfResults]
           writers == {t \in ThreadIds : wk[t].pc = "locked" /\ wk'[t].pc = "done"}
       IN /\ Cardinality({t \in ThreadIds : wk[t].pc = "locked"}) <= 1
          /\ \A t \in ThreadIds : wk[t].pc = "locked" => results_lock = t
          /\ Len(new) = Len(old) + Cardinality(writers)
          /\ SubSeq(new, 1, Len(old)) = old
          /\ \A t \in writers : new[Len(new)] = wk[t].result]_vars

C9_Witness ==
    /\ mode = "threaded" /\ concurrency >= 2
    /\ Len(heap[SelfResults]) >= 1
    /\ \E j, k \in 1 .. Len(threads) :
          /\ wk[threads[j]].pc = "done"
          /\ wk[threads[k]].pc = "locked"
          /\ results_lock = threads[k]

\* C10: a population that a run has returned never changes afterwards.
C10_ReturnedIsStable ==
    [][\A k \in 1 .. Len(returned) : Deref(returned[k])' = Deref(returned[k])]_vars

\* C11: whatever the number of trials and their outcomes, the population a run
\* returns can be summarized: generate_report yields a report for it, it does
\* not raise.
C11_AlwaysAReport ==
    JustReturned => \A mw \in MaxWorkers : generate_report(LastReturned, clock, mw).raised = "None"

\* main has a report (generate_report returned one)
HasReport == report # NoReport /\ report # ValueError

\* C12: in the report of a population the successful and the failed requests
\* add up to the total, and the total is the size of the population.
C12_CountsAddUp ==
    HasReport =>
        /\ report.successful_requests + report.failed_requests = report.total_requests
        /\ report.total_requests = Len(main_results)

C12_Witness ==
    /\ HasReport
    /\ report.successful_requests >= 20
    /\ report.failed_requests >= 20
    /\ \E j \in DOMAIN main_results :
          main_results[j].status_code = 500 /\ main_results[j].error = NoError

\* C13: the success rate of a report is successful / total, a fraction between
\* 0 and 1.
C13_SuccessRateIsFraction ==
    HasReport =>
        /\ RatEq(report.success_rate, Rat(report.successful_requests, report.total_requests))
        /\ RatLe(Rat(0, 1), report.success_rate)
        /\ RatLe(report.success_rate, Rat(1, 1))

\* C14: summarizing the empty population raises nothing and yields the report
\* with total 0, success rate 0 and every latency field 0.
C14_EmptyIsNoError ==
    (main_results = <<>> /\ report # NoReport) =>
        /\ report.raised = "None"
        /\ report.total_requests = 0
        /\ report.success_rate.num = 0
        /\ \A f \in {"avg_response_time", "min_response_time", "max_response_time",
                       "p95_response_time", "p99_response_time"} : report[f] = Zero

\* the five latency fields of a report
Latency(rp) ==
    <<rp.avg_response_time, rp.min_response_time, rp.max_response_time,
      rp.p95_response_time, rp.p99_response_time>>

\* population q is population p with other durations for some failed outcomes
FailedDurationsChanged(p, q) ==
    /\ Len(p) = Len(q)
    /\ p # q
    /\ \A j \in DOMAIN p :
          \/ q[j] = p[j]
          \/ /\ ~p[j].success
             /\ q[j] = [p[j] EXCEPT !.duration = q[j].duration, !.end_time = q[j].end_time]

\* C15: the latency fields of the report come from the durations of the
\* successful outcomes alone: they are all 0 when no outcome succeeded, and a
\* step that only changes durations of failed outcomes leaves them as they are.
C15_LatencyFromSuccesses ==
    [][/\ (main_results # <<>> /\ successful(main_results) = <<>>) =>
              \A k \in 1 .. 5 :
                  Latency(generate_report(main_results, main_duration, max_workers))[k] = Zero
       /\ (main_results # <<>> /\ FailedDurationsChanged(main_results, main_results')) =>
              Latency(generate_report(main_results', main_duration', max_workers'))
                  = Latency(generate_report(main_results, main_duration, max_workers))]_vars

C15_Witness ==
    /\ HasReport
    /\ report.successful_requests >= 20
    /\ main_results[1].status_code = 500
    /\ main_results[1].duration = float(TickStep)
    /\ \E j \in 2 .. Len(main_results) :
          main_results[j].status_code = 500 /\ main_results[j].duration = Zero
    /\ FLt(Zero, report.p95_response_time)

\* C16: in every report the 99th percentile is at least the 95th, whether
\* there are fewer than 20, 20 to 99, or 100 or more successful durations.
C16_P99AtLeastP95 ==
    HasReport => FLe(report.p95_response_time, report.p99_response_time)

\* advisory a is among the recommendations
Advised(a) == \E k \in DOMAIN recommendations : recommendations[k] = a

\* how often advisory a is among the recommendations
TimesAdvised(a) == Cardinality({k \in DOMAIN recommendations : recommendations[k] = a})

\* the predicate of the rule that gives advisory a, on the report
RuleFires(a) ==
    CASE a = AdviceSuccessRate -> RatLt(report.success_rate, Rat(95, 1))
      [] a = AdviceLatency -> FLt(float(5), report.p95_response_time)
      [] a = AdviceThroughput -> RatLt(report.requests_per_second, Rat(10, 1))
      [] a = AdviceCpu -> RatLt(Rat(100, 1), report.cpu_usage_estimate)
      [] a = AdviceMemory -> report.memory_usage_estimate > 1000

\* the advisories of the five rules
RuleAdvisories == {AdviceSuccessRate, AdviceLatency, AdviceThroughput, AdviceCpu, AdviceMemory}

\* C17: once _generate_recommendations has returned its list for the report,
\* the list is not empty; each of the five rules has contributed its advisory,
\* once, exactly when its predicate holds of the report, whatever the other
\* rules do; and the 'healthy' advisory is there exactly when no rule's
\* predicate holds, and then it is the whole list.
C17_RulesIndependent ==
    recommendations # NoRecommendations =>
        /\ recommendations # <<>>
        /\ \A a \in RuleAdvisories : Advised(a) <=> RuleFires(a)
        /\ \A a \in RuleAdvisories \cup {AdviceHealthy} : TimesAdvised(a) <= 1
        /\ Advised(AdviceHealthy) <=> ~\E a \in RuleAdvisories : RuleFires(a)
        /\ Advised(AdviceHealthy) => recommendations = <<AdviceHealthy>>
        /\ \A k \in DOMAIN recommendations :
              recommendations[k] \in RuleAdvisories \cup {AdviceHealthy}

\* no rule fired, every field the rules read being at its threshold, and the
\* list is the 'healthy' advisory alone; the same report with p95 and the CPU
\* estimate past their thresholds gets these two advisories and no other
C17_Witness ==
    /\ recommendations = <<AdviceHealthy>>
    /\ RatEq(report.success_rate, Rat(95, 1))
    /\ report.p95_response_time = float(5)
    /\ RatEq(report.requests_per_second, Rat(10, 1))
    /\ RatEq(report.cpu_usage_estimate, Rat(100, 1))
    /\ report.memory_usage_estimate = 1000
    /\ _generate_recommendations([report EXCEPT !.p95_response_time = float(6),
                                                !.cpu_usage_estimate = Rat(101, 1)])
          = <<AdviceLatency, AdviceCpu>>

\* C18: summarizing is reproducible: once main has a report, a further call of
\* generate_report yields the same report, also when the caller holds the
\* outcomes in another order by then; the same for the recommendations.
C18_Reproducible ==
    [][/\ HasReport => report' = report
       /\ recommendations # NoRecommendations => recommendations' = recommendations]_vars

C18_Witness ==
    /\ HasReport
    /\ recommendations # NoRecommendations
    /\ report.successful_requests >= 20
    /\ FLt(report.min_response_time, report.p95_response_time)
    /\ main_results[1].thread_id = Len(main_results) - 1
    /\ main_results[1].duration # main_results[Len(main_results)].duration

\* C19: ten trials that all got status 200 at once, in a run of one time unit:
\* total 10, successful 10, failed 0, success rate 1.0, and the recommendations
\* are the 'healthy' advisory.
C19_AllSucceed ==
    (/\ HasReport
     /\ Len(main_results) = 10
     /\ \A j \in DOMAIN main_results :
           main_results[j].status_code = StatusOK /\ main_results[j].duration = Zero
     /\ main_duration = 1) =>
        /\ report.total_requests = 10
        /\ report.successful_requests = 10
        /\ report.failed_requests = 0
        /\ RatEq(report.success_rate, Rat(1, 1))
        /\ _generate_recommendations(report) = <<AdviceHealthy>>

\* C20: when every trial of a run got status 500, every outcome the run
\* returns is failed with status 500, and the report has successful 0, failed
\* N, success rate 0 and the stability advisory.
C20_AllRefused ==
    (JustReturned /\ num_requests >= 1 /\ \A t \in Trials : wk[t].result.status_code = 500) =>
        /\ \A j \in DOMAIN LastReturned :
              ~LastReturned[j].success /\ LastReturned[j].status_code = 500
        /\ \A mw \in MaxWorkers :
              LET rp == generate_report(LastReturned, clock, mw) IN
                /\ rp.raised = "None"
                /\ rp.successful_requests = 0
                /\ rp.failed_requests = num_requests
                /\ rp.success_rate.num = 0
                /\ \E k \in DOMAIN _generate_recommendations(rp) :
                      _generate_recommendations(rp)[k] = AdviceSuccessRate

\* C21: every outcome, built on the success path or in the except branch, by
\* a worker thread or by single_request, has duration = end_time - start_time
\* and duration >= 0 (the clock never reads less than it did before); a trial
\* that holds a response head has its end timestamp not before its start.
C21_DurationIsInterval ==
    /\ \A r \in AllResults :
          /\ r.duration = FSub(r.end_time, r.start_time)
          /\ FLe(Zero, r.duration)
    /\ \A t \in ThreadIds : wk[t].pc = "reading" => wk[t].end_time >= wk[t].start_time

C21_Witness ==
    \E r \in AllResults, q \in AllResults :
        /\ r.success /\ FLt(Zero, r.duration)
        /\ ~q.success /\ q.error # NoError /\ FLt(Zero, q.start_time) /\ FLt(Zero, q.duration)

\* how many of the durations ds are below v, and how many are at most v
Below(ds, v) == Cardinality({k \in DOMAIN ds : FLt(ds[k], v)})
AtMost(ds, v) == Cardinality({k \in DOMAIN ds : FLe(ds[k], v)})

\* the duration at place j when ds is put in ascending order
NthSmallest(ds, j) ==
    CHOOSE v \in {ds[k] : k \in DOMAIN ds} : Below(ds, v) < j /\ j <= AtMost(ds, v)

\* p is cut point k of n of the durations ds by rank: the place k(len + 1)/n
\* in ascending order, kept within 1 .. len - 1, between its two neighbours,
\* as float arithmetic gives it (the two products, their sum and the division
\* each rounded to the nearest float)
IsRankQuantile(p, ds, n, k) ==
    LET pos == k * (Len(ds) + 1)
        j0 == pos \div n
        j == IF j0 < 1 THEN 1 ELSE IF j0 > Len(ds) - 1 THEN Len(ds) - 1 ELSE j0
        delta == pos - j * n
    IN p = FDivInt(FAdd(FMulInt(NthSmallest(ds, j), n - delta),
                        FMulInt(NthSmallest(ds, j + 1), delta)), n)

\* p is the largest of the durations ds, 0 when there is none
IsLargest(p, ds) ==
    IF ds = <<>> THEN p = Zero
    ELSE \E k \in DOMAIN ds : p = ds[k] /\ \A j \in DOMAIN ds : FLe(ds[j], ds[k])

\* C22 as stated: with at least 20 successful durations p95 and p99 are both
\* the rank-based quantile (cut 19 of 20, cut 99 of 100); with fewer, both
\* are the largest successful duration.
C22_PercentilePolicy ==
    HasReport =>
        LET ds == durations(main_results) IN
          IF Len(ds) >= 20
            THEN /\ IsRankQuantile(report.p95_response_time, ds, 20, 19)
                 /\ IsRankQuantile(report.p99_response_time, ds, 100, 99)
            ELSE /\ IsLargest(report.p95_response_time, ds)
                 /\ IsLargest(report.p99_response_time, ds)

\* C22 amended: each percentile has its own required count: p95 is the
\* rank-based quantile (cut 19 of 20) from 20 successful durations on, p99 the
\* rank-based quantile (cut 99 of 100) from 100 on; below its count each is
\* the largest successful duration, and 0 when no outcome succeeded.
C22_PercentilePolicyPerRank ==
    HasReport =>
        LET ds == durations(main_results) IN
          /\ IF Len(ds) >= 20
                THEN IsRankQuantile(report.p95_response_time, ds, 20, 19)
                ELSE IsLargest(report.p95_response_time, ds)
          /\ IF Len(ds) >= 100
                THEN IsRankQuantile(report.p99_response_time, ds, 100, 99)
                ELSE IsLargest(report.p99_response_time, ds)

C22_Witness ==
    /\ HasReport
    /\ report.successful_requests >= 20
    /\ report.successful_requests < 100
    /\ FLt(report.min_response_time, report.p95_response_time)
    /\ FLt(report.p95_response_time, report.p99_response_time)
    /\ report.p99_response_time = report.max_response_time

\* the step hands trial t its outcome
OutcomeBuilt(t) == wk[t].result = NoResult /\ wk'[t].result # NoResult

\* trial t had a status code by the time its outcome was built: it held a
\* response head before the step, or the outcome records a status code
ObtainedStatus(t) == wk[t].status_code # None \/ wk'[t].result.status_code # StatusNone

\* C23 as stated: an outcome carries an error description exactly when it is
\* failed and the trial had obtained no status code; a trial that obtained a
\* status code carries none, also when reading the body failed afterwards.
C23_ErrorIffNoStatus ==
    [][\A t \in ThreadIds :
          OutcomeBuilt(t) =>
              (wk'[t].result.error # NoError <=> (~wk'[t].result.success /\ ~ObtainedStatus(t)))]_vars

\* C23 amended: an outcome carries an error description exactly when the
\* trial ended in the except branch, which records status 0, success false
\* and size 0; an outcome built from a response records the status code
\* obtained and carries no error description.  In single_request a failure
\* while reading the body, after the status code was obtained, ends in the
\* except branch too: the status obtained is dropped.
C23_ErrorIffException ==
    [][\A t \in ThreadIds :
          OutcomeBuilt(t) =>
              LET r == wk'[t].result IN
                /\ r.error # NoError <=> r.status_code = StatusNone
                /\ r.error # NoError => ~r.success /\ r.response_size = 0
                /\ r.error = NoError =>
                      /\ r.status_code \in StatusCodes
                      /\ r.success <=> r.status_code = StatusOK
                      /\ wk[t].status_code # None => r.status_code = wk[t].status_code
                /\ mode = "threaded" => wk[t].status_code = None]_vars

C23_Witness ==
    \E t \in ThreadIds, u \in ThreadIds :
        /\ wk[t].result.error \in {str(e) : e \in PayloadErrors}
        /\ wk[t].result.status_code = StatusNone
        /\ wk[u].result.status_code = 500
        /\ wk[u].result.error = NoError

\* the step takes the start timestamp of trial t
StartTaken(t) == wk[t].start_time = None /\ wk'[t].start_time # None

\* C24: the start timestamp of a trial is taken once its scenario is selected
\* (the step that takes it leaves the trial with its request made up and
\* sent), and the end timestamp of an outcome is the reading of the clock when
\* the exchange finished.
C24_IntervalIsExchange ==
    [][\A t \in ThreadIds :
          /\ StartTaken(t) => wk'[t].pc = "posted"
          /\ OutcomeBuilt(t) => wk'[t].result.end_time = float(clock')]_vars

\* C25: the report over the population a run returned has
\* max_concurrency_reached = min(N, C), N the number of trials of the run and
\* C the concurrency passed to it, whatever max_workers the tester was made with.
C25_ConcurrencyIsMinNC ==
    (JustReturned /\ LastReturned # <<>>) =>
        \A mw \in MaxWorkers :
            generate_report(LastReturned, clock, mw).max_concurrency_reached
                = Min(num_requests, concurrency)

\* C26: since the memory estimate is 50 per outcome and its ceiling 1000,
\* the recommendations for a report over more than 20 outcomes contain the
\* memory advisory, so the 'healthy' advisory is only ever given for at most
\* 20 outcomes, however fast and successful the trials; and the CPU advisory
\* is given for every report over more than 666 outcomes.
C26_SizeForcesAdvisories ==
    (HasReport /\ recommendations # NoRecommendations) =>
        /\ report.total_requests > 20 => Advised(AdviceMemory)
        /\ Advised(AdviceHealthy) => Len(main_results) <= 20
        /\ report.total_requests > 666 => Advised(AdviceCpu)

C26_Witness ==
    /\ HasReport
    /\ report.total_requests = 21
    /\ report.successful_requests = 21
    /\ report.max_response_time = Zero
    /\ RatLe(Rat(10, 1), report.requests_per_second)
    /\ recommendations = <<AdviceMemory>>

====
